---- MODULE Spec2Model ----
(***************************************************************************)
(* LRU-IPV (Insertion/Promotion Vector) cache replacement policy of gem5,  *)
(* src/mem/cache/replacement_policies/lru_ipv.{hh,cc}.                     *)
(*                                                                         *)
(* The repository holds two variants of the policy:                        *)
(*   "lenient": warns on an associativity other than 16 and falls back to  *)
(*              an LRU-like mode (useIpv = false);                         *)
(*   "strict":  fatal_if(ways != IPV_K) in the constructor.                *)
(* One behaviour of the model is one build (variant) of the policy, one    *)
(* policy object and the per-line IPVReplData objects it hands out.        *)
(***************************************************************************)
EXTENDS Integers, Sequences, FiniteSets

VARIABLES
    variant,  \* which variant of the class is built: "lenient" or "strict"
    pc,       \* "new" (not constructed), "ready", "fatal" (fatal_if fired),
              \* "aborted" (assert(!candidates.empty()) failed), "crashed"
              \* (the read of candidates[0] of an empty vector faulted)
    ways,     \* LRUIPVRP::ways
    useIpv,   \* LRUIPVRP::useIpv (lenient variant only; stays false in strict)
    depth,    \* depth[l]: IPVReplData::depth of the l-th instantiated entry
    life,     \* history of entry l: "inserted" after a reset with no touch
              \* since, "hit" after a reset with a touch since, "unset" when
              \* its depth does not stem from a reset
    last,     \* history: the last call, the entry it acted on, its depth before
              \* the call, the call before it when on the same entry, and the
              \* number of touches in a row on that entry, this one included
    cands,    \* the candidates of the last getVictim call (<<>> otherwise)
    victim,   \* the entry the last getVictim call returned (0 otherwise)
    twin      \* a policy object of the strict variant run side by side with
              \* the one above on the same calls: its pc, the depths of its
              \* entries and its last victim; pc "none" when there is none

vars == <<variant, pc, ways, useIpv, depth, life, last, cands, victim, twin>>

----------------------------------------------------------------------------
(* Bounds of the model *)

\* number of cache-line entries the cache instantiates
NumLines == 3

\* cap of the history counter last.run of touches in a row on one entry
HitRunCap == 3

\* associativities the cache is configured with: 1, the spec's examples 2 and
\* 4, 8, the table size 16 and its neighbour 17, and the values around the
\* width of the uint8_t depth field (256 -> 255, 257 -> 0, 300 -> 43)
WaysInputs == {1, 2, 4, 8, 16, 17, 256, 257, 300}

----------------------------------------------------------------------------
(* Program constants *)

\* static constexpr unsigned IPV_K = 16
IPV_K == 16

\* number of values of uint8_t, the type of IPVReplData::depth
UInt8Mod == 256

\* IPV with position 1 promoted to itself in place of 0
IPVStuck == <<0, 1, 1, 0, 3, 0, 1, 2, 1, 0, 5, 1, 0, 0, 1, 11, 13>>

\* IPV with the promotion target of position 15 mistyped as 16
IPVOutOfRange == <<0, 0, 1, 0, 3, 0, 1, 2, 1, 0, 5, 1, 0, 0, 1, 16, 13>>

\* const unsigned LRUIPVRP::IPV[IPV_K + 1]; C index i is IPV[i + 1] here
IPV == <<0, 0, 1, 0, 3, 0, 1, 2, 1, 0, 5, 1, 0, 0, 1, 11, 13>>

\* IPV[i] of the source (0-based)
IPVAt(i) == IPV[i + 1]

\* static_cast<uint8_t>(x) for x >= 0
ToUint8(x) == x % UInt8Mod

\* values a uint8_t depth can be overwritten with from outside the policy
\* (the field is public and mutable): every table index, the first values
\* past the table, and the largest uint8_t
ForcedDepths == (0 .. (IPV_K + 1)) \cup {UInt8Mod - 1}

\* depths the candidates of a victim selection are given, next to the 0 of a
\* new entry
VictimDepths == {3, 7}

----------------------------------------------------------------------------
(* The policy's functions *)

\* Clamp with > for >=: depth IPV_K itself passes unclamped
ClampOffByOne(cur) == IF cur > IPV_K THEN IPV_K - 1 ELSE cur

\* Clamp with the comparison inverted
ClampInverted(cur) == IF cur < IPV_K THEN IPV_K - 1 ELSE cur

\* touch(): "if (cur >= IPV_K) cur = IPV_K - 1;"
Clamp(cur) == IF cur >= IPV_K THEN IPV_K - 1 ELSE cur

\* LenientReset storing ways instead of ways - 1 in the fallback
LenientResetOffByOne(ipv, w) ==
    IF ipv THEN ToUint8(IPVAt(IPV_K)) ELSE ToUint8(w)

\* LenientReset inserting at the prior table entry IPV[IPV_K - 1]
LenientResetWrongIndex(ipv, w) ==
    IF ipv THEN ToUint8(IPVAt(IPV_K - 1)) ELSE ToUint8(w - 1)

\* LenientReset storing the index IPV_K in place of the entry IPV[IPV_K]
LenientResetIndexAsDepth(ipv, w) ==
    IF ipv THEN ToUint8(IPV_K) ELSE ToUint8(w - 1)

\* lenient reset(): the depth it stores
LenientReset(ipv, w) ==
    IF ipv THEN ToUint8(IPVAt(IPV_K)) ELSE ToUint8(w - 1)

\* strict reset(): the depth it stores
StrictReset == ToUint8(IPVAt(IPV_K))

\* LenientTouch promoting to MRU in both modes
LenientTouchToMRU(ipv, cur) == 0

\* LenientTouch using the table in both modes
LenientTouchAlwaysIpv(ipv, cur) == ToUint8(IPVAt(Clamp(cur)))

\* LenientTouch promoting by one position in place of the table's target
LenientTouchOneStep(ipv, cur) ==
    IF ipv THEN (IF cur > 0 THEN cur - 1 ELSE 0) ELSE 0

\* lenient touch(): the depth it stores for current depth cur
LenientTouch(ipv, cur) ==
    IF ipv THEN ToUint8(IPVAt(Clamp(cur))) ELSE 0

\* StrictTouch storing the depth back as it was, the table lookup left out
StrictTouchKeeps(cur) == ToUint8(cur)

\* strict touch(): the depth it stores for current depth cur
StrictTouch(cur) == ToUint8(IPVAt(Clamp(cur)))

\* Worse with the comparison reversed: the scan keeps the smallest depth
WorseReversed(d, worst) == d < worst

\* Worse with >= for >: the scan keeps the last maximum
WorseOrEqual(d, worst) == d >= worst

\* the comparison of the scan in getVictim: "if (d->depth > worst)"
Worse(d, worst) == d > worst

\* getVictim(): the loop "for (auto* e : candidates)" from position i on, with
\* the running victim (a position of ds) and the running worst depth;
\* ds[i] is the depth of candidates[i - 1]
RECURSIVE ScanFrom(_, _, _, _)
ScanFrom(ds, i, vic, worst) ==
    IF i > Len(ds) THEN vic
    ELSE IF Worse(ds[i], worst) THEN ScanFrom(ds, i + 1, i, ds[i])
    ELSE ScanFrom(ds, i + 1, vic, worst)

\* getVictim() on a non-empty sequence of depths: victim = candidates[0],
\* worst = its depth, then the loop over all candidates; the position returned
VictimPos(ds) == ScanFrom(ds, 1, 1, ds[1])

----------------------------------------------------------------------------
(* State *)

Entries == 1 .. Len(depth)

\* the policy uses the IPV table
ExactMode == pc = "ready" /\ (variant = "strict" \/ useIpv)

\* the policy uses the LRU-like fallback
DegradedMode == pc = "ready" /\ variant = "lenient" /\ ~useIpv

NoCall == [op |-> "none", line |-> 0, pre |-> 0, prev |-> "none", run |-> 0]

\* the record of a call op on entry l (0: no entry) whose depth was d before
Call(op, l, d) ==
    [op |-> op, line |-> l, pre |-> d,
     prev |-> IF l # 0 /\ last.line = l THEN last.op ELSE "none",
     run |-> IF op # "touch" THEN 0
             ELSE IF last.op = "touch" /\ last.line = l
                  THEN (IF last.run < HitRunCap THEN last.run + 1 ELSE last.run)
                  ELSE 1]

\* cs is a sequence of distinct entries of S
IsCandidateSeq(cs, S) ==
    /\ \A i \in 1 .. Len(cs) : cs[i] \in S
    /\ \A i, j \in 1 .. Len(cs) : i # j => cs[i] # cs[j]

\* sequences of distinct entries of S: the candidates of one set, in any order
CandidateSeqs(S) ==
    UNION { { s \in [1 .. n -> S] : IsCandidateSeq(s, S) }
            : n \in 0 .. Cardinality(S) }

\* every candidate sequence over the entries the cache can instantiate
AllCandidateSeqs == CandidateSeqs(1 .. NumLines)

\* the depths of the candidates cs, in order
DepthsOf(cs) == [i \in 1 .. Len(cs) |-> depth[cs[i]]]

\* no second policy object
NoTwin == [pc |-> "none", depth |-> <<>>, victim |-> 0]

Init ==
    /\ twin = NoTwin
    /\ variant \in {"lenient", "strict"}
    /\ pc = "new"
    /\ ways = 0
    /\ useIpv = FALSE
    /\ depth = <<>>
    /\ life = <<>>
    /\ last = NoCall
    /\ cands = <<>>
    /\ victim = 0

----------------------------------------------------------------------------
(* Operations *)

\* Construct with the strict variant's fatal_if left out: a mismatched
\* associativity is accepted and the table is used all the same
ConstructBlended(w) ==
    /\ pc = "new"
    /\ ways' = w
    /\ useIpv' = IF variant = "lenient" THEN (w = IPV_K) ELSE useIpv
    /\ pc' = "ready"
    /\ last' = Call("construct", 0, 0)
    /\ cands' = <<>>
    /\ victim' = 0
    /\ UNCHANGED <<twin, variant, depth, life>>

\* LRUIPVRP::LRUIPVRP(const Params &p) with p.numWays = w
Construct(w) ==
    /\ pc = "new"
    /\ ways' = w
    /\ IF variant = "lenient"
       THEN /\ useIpv' = (w = IPV_K)
            /\ pc' = "ready"
       ELSE /\ useIpv' = useIpv
            /\ pc' = IF w # IPV_K THEN "fatal" ELSE "ready"
    /\ last' = Call("construct", 0, 0)
    /\ cands' = <<>>
    /\ victim' = 0
    /\ UNCHANGED <<twin, variant, depth, life>>

\* instantiateEntry(): std::make_shared<IPVReplData>(), depth = 0
InstantiateEntry ==
    /\ pc = "ready"
    /\ Len(depth) < NumLines
    /\ depth' = Append(depth, 0)
    /\ life' = Append(life, "unset")
    /\ last' = Call("instantiateEntry", Len(depth) + 1, 0)
    /\ cands' = <<>>
    /\ victim' = 0
    /\ UNCHANGED <<twin, variant, pc, ways, useIpv>>

\* reset(rd) on entry l
Reset(l) ==
    /\ pc = "ready"
    /\ l \in Entries
    /\ depth' = [depth EXCEPT ![l] =
                    IF variant = "lenient" THEN LenientReset(useIpv, ways)
                    ELSE StrictReset]
    /\ life' = [life EXCEPT ![l] = "inserted"]
    /\ last' = Call("reset", l, depth[l])
    /\ cands' = <<>>
    /\ victim' = 0
    /\ UNCHANGED <<twin, variant, pc, ways, useIpv>>

\* Touch that also ages the other entries, as a recency stack would
TouchShifting(l) ==
    /\ pc = "ready"
    /\ l \in Entries
    /\ depth' = [i \in Entries |->
                    IF i = l
                    THEN IF variant = "lenient"
                         THEN LenientTouch(useIpv, depth[l])
                         ELSE StrictTouch(depth[l])
                    ELSE IF depth[i] < depth[l] THEN depth[i] + 1 ELSE depth[i]]
    /\ life' = [life EXCEPT ![l] = IF @ = "unset" THEN @ ELSE "hit"]
    /\ last' = Call("touch", l, depth[l])
    /\ cands' = <<>>
    /\ victim' = 0
    /\ UNCHANGED <<twin, variant, pc, ways, useIpv>>

\* touch(rd) on entry l
Touch(l) ==
    /\ pc = "ready"
    /\ l \in Entries
    /\ depth' = [depth EXCEPT ![l] =
                    IF variant = "lenient" THEN LenientTouch(useIpv, depth[l])
                    ELSE StrictTouch(depth[l])]
    /\ life' = [life EXCEPT ![l] = IF @ = "unset" THEN @ ELSE "hit"]
    /\ last' = Call("touch", l, depth[l])
    /\ cands' = <<>>
    /\ victim' = 0
    /\ UNCHANGED <<twin, variant, pc, ways, useIpv>>

\* Invalidate clearing the depth of the entry
InvalidateClearing(l) ==
    /\ pc = "ready"
    /\ l \in Entries
    /\ depth' = [depth EXCEPT ![l] = 0]
    /\ last' = Call("invalidate", l, depth[l])
    /\ cands' = <<>>
    /\ victim' = 0
    /\ UNCHANGED <<twin, variant, pc, ways, useIpv, life>>

\* invalidate(rd) on entry l: "return;"
Invalidate(l) ==
    /\ pc = "ready"
    /\ l \in Entries
    /\ last' = Call("invalidate", l, depth[l])
    /\ cands' = <<>>
    /\ victim' = 0
    /\ UNCHANGED <<twin, variant, pc, ways, useIpv, depth, life>>

\* getVictim(candidates) with the non-empty candidates cs
GetVictim(cs) ==
    /\ pc = "ready"
    /\ IsCandidateSeq(cs, Entries)
    /\ cs # <<>>
    /\ cands' = cs
    /\ victim' = cs[VictimPos(DepthsOf(cs))]
    /\ last' = Call("getVictim", 0, 0)
    /\ UNCHANGED <<twin, variant, pc, ways, useIpv, depth, life>>

\* getVictim(candidates) with no candidate. With assertions compiled in,
\* assert(!candidates.empty()) stops the process. Built with NDEBUG the
\* assertion is gone and "victim = candidates[0]" reads past the end of the
\* empty vector, which is undefined: the read faults (a vector that never
\* held an element), or it yields the entry e the vector's storage still
\* holds from before it was cleared, the loop runs zero times, e is returned
\* and the policy goes on serving calls. The depths are only read.
GetVictimEmpty ==
    /\ pc = "ready"
    /\ \/ /\ pc' = "aborted"
          /\ victim' = 0
       \/ /\ pc' = "crashed"
          /\ victim' = 0
       \/ \E e \in Entries :
             /\ pc' = "ready"
             /\ victim' = e
    /\ cands' = <<>>
    /\ last' = Call("getVictim", 0, 0)
    /\ UNCHANGED <<twin, variant, ways, useIpv, depth, life>>

\* Outside the policy: the owner of entry l overwrites its public mutable
\* depth field with v (a test forcing a depth, or a corruption)
ForceDepth(l, v) ==
    /\ pc = "ready"
    /\ l \in Entries
    /\ depth' = [depth EXCEPT ![l] = v]
    /\ life' = [life EXCEPT ![l] = "unset"]
    /\ last' = Call("force", l, depth[l])
    /\ cands' = <<>>
    /\ victim' = 0
    /\ UNCHANGED <<twin, variant, pc, ways, useIpv>>

Next ==
    \/ \E w \in WaysInputs : Construct(w)
    \/ InstantiateEntry
    \/ \E l \in 1 .. NumLines : Reset(l)
    \/ \E l \in 1 .. NumLines : Touch(l)
    \/ \E l \in 1 .. NumLines : Invalidate(l)
    \/ \E cs \in AllCandidateSeqs : GetVictim(cs)
    \/ GetVictimEmpty

\* valid use: the depth of an entry is written by the policy only
Spec == Init /\ [][Next]_vars

\* insertion, promotion and invalidation of entries, the first of which has
\* its depth forced from outside between the calls
NextForced ==
    \/ \E w \in WaysInputs : Construct(w)
    \/ InstantiateEntry
    \/ \E l \in 1 .. NumLines : Reset(l)
    \/ \E l \in 1 .. NumLines : Touch(l)
    \/ \E l \in 1 .. NumLines : Invalidate(l)
    \/ \E v \in ForcedDepths : ForceDepth(1, v)

SpecForced == Init /\ [][NextForced]_vars

\* victim selection over entries whose depths are set from outside
NextVictim ==
    \/ \E w \in WaysInputs : Construct(w)
    \/ InstantiateEntry
    \/ \E l \in 1 .. NumLines : \E v \in VictimDepths : ForceDepth(l, v)
    \/ \E cs \in AllCandidateSeqs : GetVictim(cs)
    \/ GetVictimEmpty

SpecVictim == Init /\ [][NextVictim]_vars

----------------------------------------------------------------------------
(* The two variants side by side: the variables above hold a lenient policy *)
(* object and its entries, twin holds a strict one; each call is made on    *)
(* both with the same arguments.                                            *)

InitPair ==
    /\ variant = "lenient"
    /\ pc = "new"
    /\ ways = 0
    /\ useIpv = FALSE
    /\ depth = <<>>
    /\ life = <<>>
    /\ last = NoCall
    /\ cands = <<>>
    /\ victim = 0
    /\ twin = [pc |-> "new", depth |-> <<>>, victim |-> 0]

\* both constructors with p.numWays = w
PairConstruct(w) ==
    /\ pc = "new"
    /\ twin.pc = "new"
    /\ ways' = w
    /\ useIpv' = (w = IPV_K)
    /\ pc' = "ready"
    /\ twin' = [twin EXCEPT !.pc = IF w # IPV_K THEN "fatal" ELSE "ready"]
    /\ last' = Call("construct", 0, 0)
    /\ cands' = <<>>
    /\ victim' = 0
    /\ UNCHANGED <<variant, depth, life>>

\* instantiateEntry() of both
PairInstantiateEntry ==
    /\ pc = "ready"
    /\ twin.pc = "ready"
    /\ Len(depth) < NumLines
    /\ depth' = Append(depth, 0)
    /\ life' = Append(life, "unset")
    /\ twin' = [twin EXCEPT !.depth = Append(@, 0), !.victim = 0]
    /\ last' = Call("instantiateEntry", Len(depth) + 1, 0)
    /\ cands' = <<>>
    /\ victim' = 0
    /\ UNCHANGED <<variant, pc, ways, useIpv>>

\* reset(rd) of both on their entry l
PairReset(l) ==
    /\ pc = "ready"
    /\ twin.pc = "ready"
    /\ l \in Entries
    /\ depth' = [depth EXCEPT ![l] = LenientReset(useIpv, ways)]
    /\ life' = [life EXCEPT ![l] = "inserted"]
    /\ twin' = [twin EXCEPT !.depth[l] = StrictReset, !.victim = 0]
    /\ last' = Call("reset", l, depth[l])
    /\ cands' = <<>>
    /\ victim' = 0
    /\ UNCHANGED <<variant, pc, ways, useIpv>>

\* touch(rd) of both on their entry l
PairTouch(l) ==
    /\ pc = "ready"
    /\ twin.pc = "ready"
    /\ l \in Entries
    /\ depth' = [depth EXCEPT ![l] = LenientTouch(useIpv, depth[l])]
    /\ life' = [life EXCEPT ![l] = IF @ = "unset" THEN @ ELSE "hit"]
    /\ twin' = [twin EXCEPT !.depth[l] = StrictTouch(twin.depth[l]),
                            !.victim = 0]
    /\ last' = Call("touch", l, depth[l])
    /\ cands' = <<>>
    /\ victim' = 0
    /\ UNCHANGED <<variant, pc, ways, useIpv>>

\* invalidate(rd) of both on their entry l
PairInvalidate(l) ==
    /\ pc = "ready"
    /\ twin.pc = "ready"
    /\ l \in Entries
    /\ twin' = [twin EXCEPT !.victim = 0]
    /\ last' = Call("invalidate", l, depth[l])
    /\ cands' = <<>>
    /\ victim' = 0
    /\ UNCHANGED <<variant, pc, ways, useIpv, depth, life>>

\* getVictim(candidates) of both with the non-empty candidates cs, each
\* reading the depths of its own entries
PairGetVictim(cs) ==
    /\ pc = "ready"
    /\ twin.pc = "ready"
    /\ IsCandidateSeq(cs, Entries)
    /\ cs # <<>>
    /\ cands' = cs
    /\ victim' = cs[VictimPos(DepthsOf(cs))]
    /\ twin' = [twin EXCEPT !.victim =
                   cs[VictimPos([i \in 1 .. Len(cs) |-> twin.depth[cs[i]]])]]
    /\ last' = Call("getVictim", 0, 0)
    /\ UNCHANGED <<variant, pc, ways, useIpv, depth, life>>

NextPair ==
    \/ \E w \in WaysInputs : PairConstruct(w)
    \/ PairInstantiateEntry
    \/ \E l \in 1 .. NumLines : PairReset(l)
    \/ \E l \in 1 .. NumLines : PairTouch(l)
    \/ \E l \in 1 .. NumLines : PairInvalidate(l)
    \/ \E cs \in AllCandidateSeqs : PairGetVictim(cs)

SpecPair == InitPair /\ [][NextPair]_vars

----------------------------------------------------------------------------
(* Properties *)

\* the positions of cands
CandPos == 1 .. Len(cands)

\* a getVictim call on a non-empty candidate sequence has returned
VictimReturned == pc = "ready" /\ last.op = "getVictim" /\ cands # <<>>

\* C1: for every non-empty candidate sequence, in any order, getVictim
\* returns an element of the sequence whose depth is greater than or equal
\* to the depth of every candidate of the sequence.
C1_VictimIsMaximal ==
    VictimReturned =>
        /\ \E i \in CandPos : cands[i] = victim
        /\ \A i \in CandPos : depth[victim] >= depth[cands[i]]

\* C1 witness: three candidates of three different depths, the deepest in the
\* middle of the sequence, the candidates not in the order of their entries
C1_Witness ==
    /\ VictimReturned
    /\ Len(cands) = 3
    /\ depth[cands[1]] < depth[cands[3]]
    /\ depth[cands[3]] < depth[cands[2]]
    /\ victim = cands[2]
    /\ cands[2] # 2

\* C2: when several candidates share the maximum depth, getVictim returns the
\* one with the lowest index in the candidate sequence; for the depths
\* [3, 7, 7, 2] that is index 1 (the second position), not index 2.
C2_FirstMaximumWins ==
    /\ VictimReturned =>
          \E i \in CandPos :
             /\ victim = cands[i]
             /\ \A j \in CandPos : depth[cands[j]] <= depth[cands[i]]
             /\ \A j \in CandPos : j < i => depth[cands[j]] < depth[cands[i]]
    /\ VictimPos(<<3, 7, 7, 2>>) = 2

\* C2 witness: the maximum depth 7 is shared by the second and the third
\* candidate, the first is at 3, and the second is returned
C2_Witness ==
    /\ VictimReturned
    /\ Len(cands) = 3
    /\ depth[cands[1]] = 3
    /\ depth[cands[2]] = 7
    /\ depth[cands[3]] = 7
    /\ victim = cands[2]

\* C3: under valid use (instantiateEntry, then any sequence of reset, touch
\* and invalidate) the depth of every entry is in [0, 15] in exact mode and in
\* [0, associativity - 1] in degraded mode.
C3_DepthBound ==
    \A l \in Entries :
        /\ ExactMode => depth[l] \in 0 .. 15
        /\ DegradedMode => depth[l] \in 0 .. (ways - 1)

\* C3 witness: a degraded-mode entry of a 17-way cache that was inserted, at
\* depth 16, then invalidated
C3_Witness ==
    /\ DegradedMode
    /\ ways = 17
    /\ last.op = "invalidate"
    /\ last.prev = "reset"
    /\ depth[last.line] = 16

\* the promotion targets of the shipped table, as the claim lists them
ShippedPromote == <<0, 0, 1, 0, 3, 0, 1, 2, 1, 0, 5, 1, 0, 0, 1, 11>>

\* C4: in exact mode, touch on an entry whose depth is i in [0, 15] sets the
\* depth to promote[i] of the shipped table, and the result is within [0, 15].
C4_ExactPromotion ==
    (ExactMode /\ last.op = "touch" /\ last.pre \in 0 .. 15) =>
        /\ depth[last.line] = ShippedPromote[last.pre + 1]
        /\ depth[last.line] \in 0 .. 15

\* C4 witness: a touch of an entry forced to depth 15 leaves it at depth 11
C4_Witness ==
    /\ ExactMode
    /\ last.op = "touch"
    /\ last.prev = "force"
    /\ last.pre = 15
    /\ depth[last.line] = 11

\* C5: in exact mode reset sets the depth to 13 whatever it was before, and
\* a reset that follows a reset of the same entry leaves the depth as it is.
C5_ExactInsertion ==
    [][ (ExactMode /\ last'.op = "reset") =>
            /\ depth'[last'.line] = 13
            /\ (last'.prev = "reset" => depth' = depth) ]_vars

\* C5 witness: the second of two resets in a row on an entry: it found the
\* depth at 13 and left it there
C5_Witness ==
    /\ ExactMode
    /\ last.op = "reset"
    /\ last.prev = "reset"
    /\ last.pre = 13
    /\ depth[last.line] = 13

\* C6: in exact mode (k = 16, the shipped table) an insertion followed by two
\* hits on the same entry drives its depth through 13, then 0, then 0: an
\* entry not hit since its insertion is at 13, an entry hit since is at 0.
C6_ExactEndToEnd ==
    ExactMode =>
        \A l \in Entries :
            /\ life[l] = "inserted" => depth[l] = 13
            /\ life[l] = "hit" => depth[l] = 0

\* C6 witness: the second of two hits in a row on an inserted entry: it found
\* the entry at depth 0 and left it there
C6_Witness ==
    /\ ExactMode
    /\ ways = 16
    /\ last.op = "touch"
    /\ last.prev = "touch"
    /\ life[last.line] = "hit"
    /\ last.pre = 0
    /\ depth[last.line] = 0

\* C7: constructing with an associativity other than 16 either fails (strict
\* variant: nothing is ever instantiated or called) or succeeds in degraded
\* mode (lenient variant: every insertion and promotion is the fallback's),
\* never a blend; constructing with associativity 16 always yields exact mode.
C7_ConstructionOutcome ==
    pc # "new" =>
        /\ (ways # 16 /\ variant = "strict") =>
              /\ pc = "fatal"
              /\ depth = <<>>
              /\ last.op = "construct"
        /\ (ways # 16 /\ variant = "lenient") =>
              /\ pc # "fatal"
              /\ ~useIpv
              /\ \A l \in Entries :
                    /\ life[l] = "inserted" => depth[l] = (ways - 1) % 256
                    /\ life[l] = "hit" => depth[l] = 0
        /\ ways = 16 =>
              /\ pc # "fatal"
              /\ pc = "ready" => ExactMode
              /\ \A l \in Entries : life[l] = "inserted" => depth[l] = 13

\* C7 witness: a lenient policy constructed for 4 ways has inserted an entry
\* at the fallback's depth 3
C7_Witness ==
    /\ variant = "lenient"
    /\ ways = 4
    /\ pc = "ready"
    /\ last.op = "reset"
    /\ depth[last.line] = 3

\* C8: in degraded mode reset sets the stored depth to exactly
\* associativity - 1, for every positive associativity other than 16.
C8_DegradedInsertion ==
    (DegradedMode /\ last.op = "reset") => depth[last.line] = ways - 1

\* C9: in degraded mode touch sets the depth to 0, whatever it was before.
C9_DegradedPromotion ==
    (DegradedMode /\ last.op = "touch") => depth[last.line] = 0

\* C9 witness: a touch of a degraded-mode entry forced to depth 2, where the
\* table would promote to 1
C9_Witness ==
    /\ DegradedMode
    /\ last.op = "touch"
    /\ last.prev = "force"
    /\ last.pre = 2
    /\ depth[last.line] = 0

\* C10: invalidate leaves the depth of every entry unchanged in both modes,
\* and the reset that follows it on that entry sets the depth to the mode's
\* insertion value (13 in exact mode, the stored associativity - 1 in
\* degraded mode) whatever stale depth was left behind.
C10_InvalidateKeepsDepth ==
    [][ /\ last'.op = "invalidate" => depth' = depth
        /\ (last'.op = "reset" /\ last'.prev = "invalidate") =>
              depth'[last'.line] =
                 IF ExactMode THEN 13 ELSE (ways - 1) % 256 ]_vars

\* C10 witness: a reset right after the invalidation of an entry that was left
\* at the stale depth 255
C10_Witness ==
    /\ last.op = "reset"
    /\ last.prev = "invalidate"
    /\ last.pre = 255
    /\ depth[last.line] # 255

\* C11: under valid use of an exact-mode policy touch is never entered with a
\* depth of 16 or more, so its defensive clamp never triggers.
C11_ClampUnreachable ==
    (ExactMode /\ last.op = "touch") => last.pre < 16

\* C11 witness: a touch entered at the insertion depth 13, the largest depth
\* valid use produces in exact mode
C11_Witness ==
    /\ ExactMode
    /\ last.op = "touch"
    /\ last.prev = "reset"
    /\ last.pre = 13

\* C12: getVictim with zero candidates returns no victim and no error value:
\* it stops at assert(!candidates.empty()) before any candidate is read.
C12_EmptyCandidatesFatal ==
    (last.op = "getVictim" /\ cands = <<>>) =>
        (pc = "aborted" /\ victim = 0)

\* C13: in exact mode touch on an entry whose depth d is 16 <= d <= 255
\* treats d as 15 and stores promote[15] = 11; it does not fail and reads the
\* table within 0..15.
C13_CorruptDepthClamped ==
    (ExactMode /\ last.op = "touch" /\ last.pre >= 16) =>
        /\ last.pre <= 255
        /\ Clamp(last.pre) = 15
        /\ depth[last.line] = 11

\* C13 witness: a touch of an exact-mode entry forced to depth 255
C13_Witness ==
    /\ ExactMode
    /\ last.op = "touch"
    /\ last.prev = "force"
    /\ last.pre = 255
    /\ depth[last.line] = 11

\* the shipped table as the claim describes it: 16 promotion targets, then
\* the insertion depth
ShippedTable == <<0, 0, 1, 0, 3, 0, 1, 2, 1, 0, 5, 1, 0, 0, 1, 11, 13>>

\* C14: the table has k + 1 = 17 entries, each of them (the 16 promotion
\* targets and the insertion depth) in [0, 15], and no operation changes it:
\* after any calls, a touch and a reset still read the shipped entries.
C14_TableWellFormed ==
    /\ Len(IPV) = 17
    /\ Len(IPV) = IPV_K + 1
    /\ \A i \in 1 .. Len(IPV) : IPV[i] \in 0 .. 15
    /\ (ExactMode /\ last.op = "touch") =>
          depth[last.line] =
             ShippedTable[(IF last.pre >= 16 THEN 15 ELSE last.pre) + 1]
    /\ (ExactMode /\ last.op = "reset") => depth[last.line] = ShippedTable[17]

\* C14 witness: the second of two touches in a row, from 15 over 11 to 1
C14_Witness ==
    /\ ExactMode
    /\ last.op = "touch"
    /\ last.prev = "touch"
    /\ last.pre = 11
    /\ depth[last.line] = 1

\* C15: reset and touch on one entry change the depth of that entry only,
\* and getVictim changes no depth at all.
C15_PerLineIndependence ==
    [][ /\ last'.op \in {"reset", "touch"} =>
              /\ Len(depth') = Len(depth)
              /\ \A l \in Entries : l # last'.line => depth'[l] = depth[l]
        /\ last'.op = "getVictim" => depth' = depth ]_vars

\* C15 witness: a touch took entry 2 from 13 to 0 while entries 1 and 3 are
\* still at their insertion depth 13
C15_Witness ==
    /\ Len(depth) = 3
    /\ last.op = "touch"
    /\ last.line = 2
    /\ last.pre = 13
    /\ depth = <<13, 0, 13>>

\* C16: under valid use of an exact-mode policy the depth of an entry only
\* ever takes the values 0 and 13.
C16_ExactReachableDepths ==
    ExactMode => \A l \in Entries : depth[l] \in {0, 13}

\* C16 witness: three entries after insertions, a hit and an invalidation:
\* one hit (0), one inserted (13), one never inserted (0)
C16_Witness ==
    /\ ExactMode
    /\ Len(depth) = 3
    /\ life = <<"hit", "inserted", "unset">>
    /\ depth = <<0, 13, 0>>
    /\ last.op = "invalidate"

\* C17: for every associativity >= 2, in both modes, when the candidates hold
\* an entry inserted and not hit since, getVictim never returns an entry that
\* was hit since its last insertion.
C17_HitsProtect ==
    (VictimReturned /\ ways >= 2
        /\ \E i \in CandPos : life[cands[i]] = "inserted")
    => life[victim] # "hit"

\* C18: in exact mode touch never increases the depth: from i in [0, 15] it
\* stores a depth below i when i > 0 and 0 when i = 0; so the third of three
\* hits in a row always leaves the depth at 0, where further hits keep it.
C18_PromotionConverges ==
    /\ (ExactMode /\ last.op = "touch" /\ last.pre \in 0 .. 15) =>
          /\ depth[last.line] <= last.pre
          /\ last.pre > 0 => depth[last.line] < last.pre
          /\ last.pre = 0 => depth[last.line] = 0
    /\ (ExactMode /\ last.op = "touch" /\ last.run >= 3) =>
          depth[last.line] = 0

\* C18 witness: the third hit in a row finds the entry still at depth 1 (as
\* from 15 over 11, or from 7 over 2) and brings it to 0
C18_Witness ==
    /\ ExactMode
    /\ last.op = "touch"
    /\ last.run = 3
    /\ last.pre = 1
    /\ depth[last.line] = 0

\* C19: run side by side on the same calls with associativity 16, the strict
\* and the lenient variant are both constructed, keep identical depths in
\* every entry after every call, and return the same victim from every
\* getVictim call.
C19_VariantsAgree ==
    (pc # "new" /\ ways = 16) =>
        /\ twin.pc = pc
        /\ twin.depth = depth
        /\ twin.victim = victim

\* C19 witness: both variants hold a hit entry at 0 and two inserted entries
\* at 13, and both return the first of the two from getVictim
C19_Witness ==
    /\ ways = 16
    /\ twin.pc = "ready"
    /\ last.op = "getVictim"
    /\ cands = <<1, 2, 3>>
    /\ life = <<"hit", "inserted", "inserted">>
    /\ depth = <<0, 13, 13>>
    /\ twin.depth = <<0, 13, 13>>
    /\ victim = 2
    /\ twin.victim = 2

====
